---- MODULE Spec2Model ----
(***************************************************************************)
(* Stateless execution validator of zk-pig (src/generator/execute.go).      *)
(*                                                                         *)
(* executor.Execute validates a ProverInput (blocks + witness) by loading   *)
(* the witness into a fresh in-memory database, opening the pre-state at    *)
(* the first ancestor's state root and driving the EVM block executor       *)
(* through its decorator chain.  Every pipeline stage of every call is one  *)
(* action, so that concurrent calls interleave stage by stage.              *)
(***************************************************************************)
EXTENDS Integers, Sequences, FiniteSets, TLC

VARIABLES
    active,      \* the calls the caller makes (set of call ids)
    pc,          \* pc[c]: the stage call c is about to run
    inputs,      \* inputs[c]: <<>> before the call, <<ProverInput>> after
    tags,        \* tags[c]: tags of the ctx built by Execute (lines 44-50)
    log,         \* log[c]: messages logged through the call's logger, in order
    allocated,   \* ids of the memory databases created so far
    stores,      \* stores[id]: content of memory database id
    storeOf,     \* storeOf[c]: id of the database behind execCtx.stateDB, 0 if none
    chain,       \* chain[c]: <<>> or <<header chain>> (execCtx.hc)
    opened,      \* opened[c]: the state roots gethstate.New was called with
    params,      \* params[c]: <<>> or <<evm.ExecParams>>
    stack,       \* stack[c]: the decorator layers entered and not yet returned
    evmTags,     \* evmTags[c]: tags of the ctx inside the decorator chain
    evmTrace,    \* evmTrace[c]: what each layer of the executor chain did, in order
    engineCalls, \* engineCalls[c]: parameter bundles the base executor was run with
    res,         \* res[c]: <<>> (nil) or <<ProcessResult>> of the innermost return
    err          \* err[c]: <<>> (nil) or the error as its chain of messages

vars == <<active, pc, inputs, tags, log, allocated, stores, storeOf, chain,
          opened, params, stack, evmTags, evmTrace, engineCalls, res, err>>

----------------------------------------------------------------------------
(* Bounds of the model *)

MaxBlocks == 1       \* longest inputs.Blocks
MaxAncestors == 1    \* longest inputs.Witness.Ancestors
NumCalls == 2        \* concurrent Execute calls in SpecConc

Calls == 1..NumCalls
StoreIds == 1..NumCalls

(* Raw blobs of a witness: trie nodes and bytecodes. *)
NodeBlobs == {1, 2, 3}
CodeBlobs == {1}

(* Content hash of a blob (keccak256): the key under which it is stored. *)
Keccak(blob) == 10 + blob

(* Blobs 1 and 3 are root nodes of two state tries, blob 2 an inner node. *)
StateRoots == {Keccak(1), Keccak(3)}

(* Header.Hash(): a hash of all header fields, injective on the model's headers. *)
HeaderHash(h) == 50000 + h.number * 10000 + h.parentHash * 100 + h.root

(* The parents of the blocks to validate; their own parent hash is the zero hash. *)
ParentHeaders == [number : {0}, parentHash : {0}, root : StateRoots]

BlockHeaders ==
    [number : {1}, parentHash : {HeaderHash(h) : h \in ParentHeaders}, root : StateRoots]

Headers == ParentHeaders \cup BlockHeaders

(* What a block body makes the transition do: the trie nodes and codes it  *)
(* reads beyond the root node, whether its transactions are valid, and     *)
(* whether it moves the state to the other root.                           *)
Bodies ==
    { [nodes |-> {}, codes |-> {}, valid |-> TRUE, moves |-> FALSE],
      [nodes |-> {Keccak(2)}, codes |-> {Keccak(1)}, valid |-> TRUE, moves |-> TRUE],
      [nodes |-> {}, codes |-> {}, valid |-> FALSE, moves |-> FALSE] }

Blocks == [Header : BlockHeaders, Body : Bodies]

SeqsUpTo(S, n) == UNION { [1..k -> S] : k \in 0..n }

Witnesses ==
    [Ancestors : SeqsUpTo(Headers, MaxAncestors),
     Codes : SUBSET CodeBlobs,
     State : SUBSET NodeBlobs]

(* input.ProverInput; ChainConfigOk tells whether ethereum.NewChain accepts *)
(* inputs.ChainConfig.                                                      *)
ProverInputs ==
    [ChainConfigOk : BOOLEAN, Blocks : SeqsUpTo(Blocks, MaxBlocks), Witness : Witnesses]

(* The inputs of the concurrent calls: one block that moves the state from *)
(* root Keccak(1) to root Keccak(3), its parent as the only ancestor, and  *)
(* any subset of the nodes of the parent's trie.                           *)
ConcInputs ==
    UNION { { [ChainConfigOk |-> TRUE,
               Blocks |-> <<blk>>,
               Witness |-> [Ancestors |-> <<par>>, Codes |-> CodeBlobs, State |-> nodes]] :
                 blk \in {x \in Blocks : /\ x.Header.parentHash = HeaderHash(par)
                                         /\ x.Header.root = Keccak(3)
                                         /\ x.Body.valid /\ x.Body.moves},
                 nodes \in SUBSET {1, 2} } :
            par \in {h \in ParentHeaders : h.root = Keccak(1)} }

----------------------------------------------------------------------------
(* Errors are chains of messages, outermost first; nil is the empty chain. *)

Nil == <<>>
Errorf(msg) == <<msg>>
Wrap(msg, e) == <<msg>> \o e

EmptyStore == [headers |-> {}, codes |-> {}, nodes |-> {}]

----------------------------------------------------------------------------
(* The collaborators of the executor whose code lives in other packages.   *)

(* ethereum.WriteHeaders: indexes every header by hash and by number. *)
WriteHeaders(store, headers) ==
    [store EXCEPT !.headers =
        @ \cup { <<HeaderHash(headers[k]), headers[k].number, headers[k]>> :
                    k \in 1..Len(headers) }]

(* ethereum.WriteCodes: stores every bytecode under its content hash. *)
WriteCodes(store, codes) ==
    [store EXCEPT !.codes = @ \cup { <<Keccak(b), b>> : b \in codes }]

(* ethereum.WriteNodesToHashDB: stores every trie node under its content hash. *)
WriteNodesToHashDB(store, nodes) ==
    [store EXCEPT !.nodes = @ \cup { <<Keccak(b), b>> : b \in nodes }]

HasHeader(store, hash) == \E e \in store.headers : e[1] = hash
HasCode(store, hash) == \E e \in store.codes : e[1] = hash
HasNode(store, hash) == \E e \in store.nodes : e[1] = hash

(* ethereum.NewChain: fails on a malformed chain configuration. *)
NewChain(chainConfigOk, storeId) ==
    IF chainConfigOk
    THEN [hc |-> <<[store |-> storeId]>>, err |-> Nil]
    ELSE [hc |-> <<>>, err |-> Errorf("invalid chain config")]

(* gethstate.New(root, db): opens the trie at root; the root node must be *)
(* in the database.                                                       *)
StateNew(root, storeId, store) ==
    IF HasNode(store, root)
    THEN [state |-> <<[root |-> root, store |-> storeId]>>, err |-> Nil]
    ELSE [state |-> <<>>, err |-> Errorf("missing trie node")]

(* The state root the transition of a block leads to from root pre. *)
PostRoot(pre, body) ==
    IF body.moves THEN CHOOSE r \in StateRoots : r # pre ELSE pre

(* What the transition cannot find in the database it reads from.  Outside *)
(* self-validating mode the engine may fall back to other sources, so no   *)
(* lookup fails.                                                           *)
MissingFromWitness(store, p) ==
    /\ p.VMConfig.StatelessSelfValidation
    /\ \/ ~HasHeader(store, p.Block.Header.parentHash)
       \/ ~HasNode(store, p.State.root)
       \/ \E h \in p.Block.Body.nodes : ~HasNode(store, h)
       \/ \E h \in p.Block.Body.codes : ~HasCode(store, h)

(* evm.NewExecutor().Execute: the state transition of params.Block on     *)
(* params.State, validated against the block's header when Validate.      *)
BaseExecutor(store, p) ==
    LET post == PostRoot(p.State.root, p.Block.Body) IN
    IF ~p.Block.Body.valid
    THEN [res |-> <<>>, err |-> Errorf("invalid transaction")]
    ELSE IF MissingFromWitness(store, p)
    THEN [res |-> <<>>, err |-> Errorf("missing trie node")]
    ELSE IF p.Validate /\ post # p.Block.Header.root
    THEN [res |-> <<>>, err |-> Errorf("invalid merkle root")]
    ELSE [res |-> <<[stateRoot |-> post,
                     gasUsed |-> 1 + Cardinality(p.Block.Body.nodes)]>>,
          err |-> Nil]

----------------------------------------------------------------------------
(* executor (src/generator/execute.go) *)

NoTags == [component |-> "", chainId |-> 0, blockNumber |-> 0, blockHash |-> 0]

(* The empty-blocks check left out. *)
NoBlocks_unchecked(in) == FALSE

(* Execute, line 38. *)
NoBlocks(in) == Len(in.Blocks) = 0

(* Execute, lines 44-50: the tags put on ctx. *)
ExecuteTags(in) ==
    [component |-> "execute",
     chainId |-> 1,
     blockNumber |-> in.Blocks[1].Header.number,
     blockHash |-> HeaderHash(in.Blocks[1].Header)]

Logged(c, msg) == Append(log[c], [msg |-> msg, tags |-> tags[c]])

(* One database kept by the executor and handed to every call. *)
NewMemoryDatabase_shared(used) == 1

(* rawdb.NewMemoryDatabase(): a database no call holds yet. *)
NewMemoryDatabase(used) ==
    CHOOSE id \in StoreIds : id \notin used /\ \A j \in StoreIds \ used : id <= j

(* The error of prepareExecParams dropped. *)
NextStage_paramsErrorIgnored(stage, e) ==
    CASE stage = "prepareContext" -> IF e # Nil THEN "return" ELSE "preparePreState"
      [] stage = "preparePreState" -> "prepareExecParams"
      [] stage = "prepareExecParams" -> "execEVM"

(* execute, lines 72-84: the stage that follows a stage that returned e. *)
NextStage(stage, e) ==
    IF e # Nil THEN "return"
    ELSE CASE stage = "prepareContext" -> "preparePreState"
           [] stage = "preparePreState" -> "prepareExecParams"
           [] stage = "prepareExecParams" -> "execEVM"

Init ==
    /\ active = {1}
    /\ pc = [c \in Calls |-> "idle"]
    /\ inputs = [c \in Calls |-> <<>>]
    /\ tags = [c \in Calls |-> NoTags]
    /\ log = [c \in Calls |-> <<>>]
    /\ allocated = {}
    /\ stores = [id \in StoreIds |-> EmptyStore]
    /\ storeOf = [c \in Calls |-> 0]
    /\ chain = [c \in Calls |-> <<>>]
    /\ opened = [c \in Calls |-> <<>>]
    /\ params = [c \in Calls |-> <<>>]
    /\ stack = [c \in Calls |-> <<>>]
    /\ evmTags = [c \in Calls |-> NoTags]
    /\ evmTrace = [c \in Calls |-> <<>>]
    /\ engineCalls = [c \in Calls |-> <<>>]
    /\ res = [c \in Calls |-> <<>>]
    /\ err = [c \in Calls |-> Nil]

(* Execute, lines 37-50: the empty-blocks check, then blocks[0] is read    *)
(* (a panic if there is none) and ctx is tagged.                           *)
ExecuteOn(c, in) ==
    /\ inputs' = [inputs EXCEPT ![c] = <<in>>]
    /\ IF NoBlocks(in)
       THEN /\ err' = [err EXCEPT ![c] = Errorf("no blocks provided")]
            /\ pc' = [pc EXCEPT ![c] = "done"]
            /\ tags' = tags
       ELSE IF Len(in.Blocks) < 1
       THEN /\ pc' = [pc EXCEPT ![c] = "panic"]
            /\ UNCHANGED <<err, tags>>
       ELSE /\ err' = err
            /\ tags' = [tags EXCEPT ![c] = ExecuteTags(in)]
            /\ pc' = [pc EXCEPT ![c] = "prepareContext"]
    /\ UNCHANGED <<active, log, allocated, stores, storeOf, chain, opened, params,
                   stack, evmTags, evmTrace, engineCalls, res>>

(* The caller starts call c on any input. *)
Execute(c) ==
    /\ c \in active
    /\ pc[c] = "idle"
    /\ \E in \in ProverInputs : ExecuteOn(c, in)

(* The caller starts call c, one of several concurrent calls. *)
ExecuteConc(c) ==
    /\ c \in active
    /\ pc[c] = "idle"
    /\ \E in \in ConcInputs : ExecuteOn(c, in)

(* execute lines 70-75 and prepareContext, lines 87-105. *)
prepareContext(c) ==
    /\ pc[c] = "prepareContext"
    /\ LET in == inputs[c][1]
           id == NewMemoryDatabase(allocated)
           made == NewChain(in.ChainConfigOk, id)
           e == IF made.err # Nil THEN Wrap("failed to create chain", made.err) ELSE Nil
       IN /\ allocated' = allocated \cup {id}
          /\ stores' = IF id \in allocated THEN stores
                       ELSE [stores EXCEPT ![id] = EmptyStore]
          /\ log' = [log EXCEPT ![c] =
                        Append(Logged(c, "Process provable execution..."),
                               [msg |-> "Prepare context...", tags |-> tags[c]])]
          /\ pc' = [pc EXCEPT ![c] = NextStage("prepareContext", e)]
          /\ IF e # Nil
             THEN /\ err' = [err EXCEPT ![c] =
                               Wrap("failed to prepare execution context", e)]
                  /\ UNCHANGED <<storeOf, chain>>
             ELSE /\ storeOf' = [storeOf EXCEPT ![c] = id]
                  /\ chain' = [chain EXCEPT ![c] = made.hc]
                  /\ err' = err
    /\ UNCHANGED <<active, inputs, tags, opened, params, stack, evmTags, evmTrace,
                   engineCalls, res>>

(* The bytecodes not preloaded. *)
LoadWitness_codesSkipped(store, w) ==
    WriteNodesToHashDB(WriteHeaders(store, w.Ancestors), w.State)

(* preparePreState, lines 111-125: headers, then codes, then nodes. *)
LoadWitness(store, w) ==
    WriteNodesToHashDB(WriteCodes(WriteHeaders(store, w.Ancestors), w.Codes), w.State)

(* execute line 77 and preparePreState, lines 107-126. *)
preparePreState(c) ==
    /\ pc[c] = "preparePreState"
    /\ stores' = [stores EXCEPT ![storeOf[c]] = LoadWitness(@, inputs[c][1].Witness)]
    /\ log' = [log EXCEPT ![c] = Logged(c, "Prepare pre-state...")]
    /\ pc' = [pc EXCEPT ![c] = NextStage("preparePreState", Nil)]
    /\ UNCHANGED <<active, inputs, tags, allocated, storeOf, chain, opened, params,
                   stack, evmTags, evmTrace, engineCalls, res, err>>

(* The empty-ancestors check left out. *)
NoAncestors_unchecked(in) == FALSE

(* prepareExecParams, line 135. *)
NoAncestors(in) == Len(in.Witness.Ancestors) = 0

(* A nil *types.Header; no input of the model carries one. *)
NilHeader == [number |-> -1, parentHash |-> 0, root |-> 0]

(* prepareExecParams, lines 141-143: the check on the first ancestor. *)
LinkageError(parentHeader, block) ==
    parentHeader = NilHeader \/ HeaderHash(parentHeader) = HeaderHash(block.Header)

(* The block executed without validation of its result. *)
ExecParams_noValidate(block, hc, preState) ==
    [VMConfig |-> [StatelessSelfValidation |-> TRUE],
     Block |-> block,
     Validate |-> FALSE,
     Chain |-> hc,
     State |-> preState]

(* prepareExecParams, lines 150-158: the parameter bundle. *)
ExecParams(block, hc, preState) ==
    [VMConfig |-> [StatelessSelfValidation |-> TRUE],
     Block |-> block,
     Validate |-> TRUE,
     Chain |-> hc,
     State |-> preState]

(* execute lines 79-82 and prepareExecParams, lines 128-159. *)
prepareExecParams(c) ==
    /\ pc[c] = "prepareExecParams"
    /\ LET in == inputs[c][1]
           fail(e) ==
               /\ err' = [err EXCEPT ![c] =
                            Wrap("failed to prepare execution exec params", e)]
               /\ pc' = [pc EXCEPT ![c] = NextStage("prepareExecParams", e)]
               /\ UNCHANGED params
       IN IF Len(in.Blocks) = 0
          THEN fail(Errorf("no blocks provided")) /\ UNCHANGED <<log, opened>>
          ELSE /\ log' = [log EXCEPT ![c] = Logged(c, "Prepare execution parameters...")]
               /\ IF NoAncestors(in)
                  THEN fail(Errorf("no ancestors provided")) /\ UNCHANGED opened
                  ELSE IF Len(in.Witness.Ancestors) < 1
                  THEN /\ pc' = [pc EXCEPT ![c] = "panic"]
                       /\ UNCHANGED <<err, params, opened>>
                  ELSE LET parentHeader == in.Witness.Ancestors[1] IN
                       IF LinkageError(parentHeader, in.Blocks[1])
                       THEN /\ fail(Errorf("first ancestor must be the parent of the first block"))
                            /\ UNCHANGED opened
                       ELSE LET st == StateNew(parentHeader.root, storeOf[c],
                                               stores[storeOf[c]])
                            IN /\ opened' = [opened EXCEPT ![c] =
                                                Append(@, parentHeader.root)]
                               /\ IF st.err # Nil
                                  THEN fail(Wrap("failed to create pre-state from parent root",
                                                 st.err))
                                  ELSE /\ params' = [params EXCEPT ![c] =
                                                       <<ExecParams(in.Blocks[1], chain[c][1],
                                                                    st.state[1])>>]
                                       /\ pc' = [pc EXCEPT ![c] =
                                                   NextStage("prepareExecParams", Nil)]
                                       /\ err' = err
    /\ UNCHANGED <<active, inputs, tags, allocated, stores, storeOf, chain, stack,
                   evmTags, evmTrace, engineCalls, res>>

(* The two decorators applied in the other order. *)
ExecutorChain_logOutermost == <<"log", "tags", "base">>

(* execEVM, line 164: ExecutorWithTags("evm")(ExecutorWithLog()(NewExecutor())), *)
(* outermost layer first.                                                       *)
ExecutorChain == <<"tags", "log", "base">>

Event(layer, phase, r, e) == [layer |-> layer, phase |-> phase, res |-> r, err |-> e]

(* execEVM, lines 161-164: logs and calls into the outermost layer. *)
execEVM(c) ==
    /\ pc[c] = "execEVM"
    /\ log' = [log EXCEPT ![c] = Logged(c, "Execute EVM...")]
    /\ evmTags' = [evmTags EXCEPT ![c] = tags[c]]
    /\ stack' = [stack EXCEPT ![c] = <<>>]
    /\ pc' = [pc EXCEPT ![c] = "call"]
    /\ UNCHANGED <<active, inputs, tags, allocated, stores, storeOf, chain, opened,
                   params, evmTrace, engineCalls, res, err>>

(* A decorator is entered: ExecutorWithTags puts its component on the ctx  *)
(* it passes down, ExecutorWithLog logs the start with the logger of the   *)
(* ctx it was given.                                                       *)
DecoratorCall(c) ==
    /\ pc[c] = "call"
    /\ LET layer == ExecutorChain[Len(stack[c]) + 1] IN
       /\ layer # "base"
       /\ stack' = [stack EXCEPT ![c] = Append(@, layer)]
       /\ IF layer = "tags"
          THEN /\ evmTags' = [evmTags EXCEPT ![c].component = "evm"]
               /\ log' = log
          ELSE /\ evmTags' = evmTags
               /\ log' = [log EXCEPT ![c] =
                             Append(@, [msg |-> "Start block execution...",
                                        tags |-> evmTags[c]])]
       /\ evmTrace' = [evmTrace EXCEPT ![c] = Append(@, Event(layer, "call", <<>>, Nil))]
    /\ UNCHANGED <<active, pc, inputs, tags, allocated, stores, storeOf, chain, opened,
                   params, engineCalls, res, err>>

(* The base executor runs the block on the parameters it was handed. *)
BaseExecute(c) ==
    /\ pc[c] = "call"
    /\ ExecutorChain[Len(stack[c]) + 1] = "base"
    /\ LET p == params[c][1]
           out == BaseExecutor(stores[p.State.store], p)
       IN /\ engineCalls' = [engineCalls EXCEPT ![c] = Append(@, p)]
          /\ res' = [res EXCEPT ![c] = out.res]
          /\ err' = [err EXCEPT ![c] = out.err]
          /\ evmTrace' = [evmTrace EXCEPT ![c] =
                            Append(@, Event("base", "return", out.res, out.err))]
    /\ pc' = [pc EXCEPT ![c] = "ret"]
    /\ UNCHANGED <<active, inputs, tags, log, allocated, stores, storeOf, chain, opened,
                   params, stack, evmTags>>

(* A decorator returns: ExecutorWithLog records the outcome, both hand the *)
(* result and the error up unchanged.                                      *)
DecoratorReturn(c) ==
    /\ pc[c] = "ret"
    /\ stack[c] # <<>>
    /\ LET layer == stack[c][Len(stack[c])] IN
       /\ IF layer = "log"
          THEN log' = [log EXCEPT ![c] =
                          Append(@, [msg |-> IF err[c] # Nil
                                             THEN "Block execution failed"
                                             ELSE "Block execution succeeded",
                                     tags |-> evmTags[c]])]
          ELSE log' = log
       /\ evmTrace' = [evmTrace EXCEPT ![c] =
                         Append(@, Event(layer, "return", res[c], err[c]))]
    /\ stack' = [stack EXCEPT ![c] = SubSeq(@, 1, Len(@) - 1)]
    /\ UNCHANGED <<active, pc, inputs, tags, allocated, stores, storeOf, chain, opened,
                   params, evmTags, engineCalls, res, err>>

(* An empty result returned together with the error. *)
execEVMResult_emptyResultOnError(r, e) ==
    IF e # Nil
    THEN [res |-> <<[stateRoot |-> 0, gasUsed |-> 0]>>,
          err |-> Wrap("failed to execute block", e)]
    ELSE [res |-> r, err |-> Nil]

(* execEVM, lines 165-169: what it returns for the chain's res and err. *)
execEVMResult(r, e) ==
    IF e # Nil
    THEN [res |-> r, err |-> Wrap("failed to execute block", e)]
    ELSE [res |-> r, err |-> Nil]

(* execEVM, lines 164-169, and execute line 84: the chain has returned. *)
execEVMReturn(c) ==
    /\ pc[c] = "ret"
    /\ stack[c] = <<>>
    /\ LET out == execEVMResult(res[c], err[c])
       IN /\ res' = [res EXCEPT ![c] = out.res]
          /\ err' = [err EXCEPT ![c] = out.err]
    /\ pc' = [pc EXCEPT ![c] = "return"]
    /\ UNCHANGED <<active, inputs, tags, log, allocated, stores, storeOf, chain, opened,
                   params, stack, evmTags, evmTrace, engineCalls>>

(* Success logged whatever the error. *)
OutcomeMessage_alwaysSucceeded(e) == "Provable execution succeeded"

(* Execute, lines 53-58: the message logged for the error of execute. *)
OutcomeMessage(e) ==
    IF e # Nil THEN "Provable execution failed" ELSE "Provable execution succeeded"

(* Execute, lines 52-60: the outcome is logged and returned. *)
ExecuteReturn(c) ==
    /\ pc[c] = "return"
    /\ log' = [log EXCEPT ![c] = Logged(c, OutcomeMessage(err[c]))]
    /\ pc' = [pc EXCEPT ![c] = "done"]
    /\ UNCHANGED <<active, inputs, tags, allocated, stores, storeOf, chain, opened,
                   params, stack, evmTags, evmTrace, engineCalls, res, err>>

Stage(c) ==
    \/ prepareContext(c)
    \/ preparePreState(c)
    \/ prepareExecParams(c)
    \/ execEVM(c)
    \/ DecoratorCall(c)
    \/ BaseExecute(c)
    \/ DecoratorReturn(c)
    \/ execEVMReturn(c)
    \/ ExecuteReturn(c)

Next == \E c \in Calls : Execute(c) \/ Stage(c)

Spec == Init /\ [][Next]_vars

(* Several validations run concurrently on one executor. *)
InitConc ==
    /\ Init!2 /\ Init!3 /\ Init!4 /\ Init!5 /\ Init!6 /\ Init!7 /\ Init!8 /\ Init!9
    /\ Init!10 /\ Init!11 /\ Init!12 /\ Init!13 /\ Init!14 /\ Init!15 /\ Init!16
    /\ Init!17
    /\ active = Calls

NextConc == \E c \in Calls : ExecuteConc(c) \/ Stage(c)

SpecConc == InitConc /\ [][NextConc]_vars

----------------------------------------------------------------------------
(* Properties *)

Started(c) == inputs[c] # <<>>
In(c) == inputs[c][1]
Done(c) == pc[c] = "done"
Has(e, msg) == \E k \in 1..Len(e) : e[k] = msg
IsPrefix(s, t) == Len(s) <= Len(t) /\ \A k \in 1..Len(s) : s[k] = t[k]

(* The request passes the checks that precede the linkage check. *)
WellFormed(in) ==
    in.ChainConfigOk /\ Len(in.Blocks) > 0 /\ Len(in.Witness.Ancestors) > 0

(* ancestors[0] is the header blocks[0] declares as its parent. *)
TrueParent(in) ==
    HeaderHash(in.Witness.Ancestors[1]) = in.Blocks[1].Header.parentHash

(* C1: a call whose first ancestor is not the parent that blocks[0]       *)
(* declares ends with the linkage error, without the pre-state view ever  *)
(* having been opened and without the engine having run.                  *)
C1_WrongParentIsLinkageError ==
    \A c \in active :
        (Done(c) /\ WellFormed(In(c)) /\ ~TrueParent(In(c)))
            => /\ Has(err[c], "first ancestor must be the parent of the first block")
               /\ opened[c] = <<>>
               /\ engineCalls[c] = <<>>

(* C2 as stated: a call with blocks and no ancestors ends with 'no        *)
(* ancestors provided' and no database was created or written for it.     *)
C2_NoAncestorsBeforeDatabaseWork ==
    \A c \in active :
        (Done(c) /\ In(c).ChainConfigOk /\ Len(In(c).Blocks) > 0
                 /\ Len(In(c).Witness.Ancestors) = 0)
            => /\ Has(err[c], "no ancestors provided")
               /\ storeOf[c] = 0
               /\ allocated = {}
               /\ \A id \in StoreIds : stores[id] = EmptyStore

(* C2 amended: once such a call is past prepareExecParams it holds the    *)
(* error 'no ancestors provided' wrapped by execute and no result, the    *)
(* pre-state view was never opened and the engine never ran; the database *)
(* of the call exists by then and holds the witness's codes and nodes.    *)
C2_NoAncestorsBeforeView ==
    \A c \in active :
        (Started(c) /\ In(c).ChainConfigOk /\ Len(In(c).Blocks) > 0
                    /\ Len(In(c).Witness.Ancestors) = 0
                    /\ pc[c] \notin {"prepareContext", "preparePreState",
                                     "prepareExecParams"})
            => /\ pc[c] \in {"return", "done"}
               /\ err[c] = <<"failed to prepare execution exec params",
                             "no ancestors provided">>
               /\ res[c] = <<>>
               /\ opened[c] = <<>>
               /\ engineCalls[c] = <<>>
               /\ storeOf[c] \in allocated
               /\ stores[storeOf[c]].headers = {}
               /\ stores[storeOf[c]].codes = {<<Keccak(b), b>> : b \in In(c).Witness.Codes}
               /\ stores[storeOf[c]].nodes = {<<Keccak(b), b>> : b \in In(c).Witness.State}

C2_Witness ==
    \E c \in active :
        /\ Done(c) /\ In(c).ChainConfigOk /\ Len(In(c).Blocks) > 0
        /\ Len(In(c).Witness.Ancestors) = 0
        /\ In(c).Witness.State # {} /\ In(c).Witness.Codes # {}

(* C7: a call with no blocks is over at once with the error 'no blocks    *)
(* provided' and no result: blocks[0] was not read (ctx carries no tags), *)
(* nothing was logged, no database was created or written and the engine  *)
(* was not run.                                                           *)
C7_NoBlocks ==
    \A c \in active :
        (Started(c) /\ Len(In(c).Blocks) = 0)
            => /\ Done(c)
               /\ err[c] = <<"no blocks provided">>
               /\ res[c] = <<>>
               /\ tags[c] = NoTags
               /\ log[c] = <<>>
               /\ storeOf[c] = 0
               /\ allocated = {}
               /\ \A id \in StoreIds : stores[id] = EmptyStore
               /\ opened[c] = <<>>
               /\ engineCalls[c] = <<>>

C7_Witness ==
    \E c \in active :
        /\ Done(c) /\ Len(In(c).Blocks) = 0
        /\ In(c).Witness.State # {} /\ Len(In(c).Witness.Ancestors) > 0

(* The call went through the request and linkage checks of                *)
(* prepareExecParams: gethstate.New was called.                           *)
PassedChecks(c) == opened[c] # <<>>

(* What the transition of blocks[0] reads that the witness does not hold. *)
WitnessLacks(in) ==
    LET w == in.Witness
        b == in.Blocks[1]
    IN \/ w.Ancestors[1].root \notin {Keccak(n) : n \in w.State}
       \/ \E h \in b.Body.nodes : h \notin {Keccak(n) : n \in w.State}
       \/ \E h \in b.Body.codes : h \notin {Keccak(n) : n \in w.Codes}
       \/ b.Header.parentHash \notin
              {HeaderHash(w.Ancestors[k]) : k \in 1..Len(w.Ancestors)}

(* C3: from preparePreState on, the database of a call holds exactly the  *)
(* headers, codes and nodes of its witness; a call that went through the  *)
(* checks and whose witness lacks something the transition reads never    *)
(* holds a result, and ends with an error.                                *)
C3_InsufficientWitnessFails ==
    \A c \in active :
        /\ (Started(c) /\ pc[c] \in {"prepareExecParams", "execEVM", "call", "ret",
                                     "return", "done"} /\ storeOf[c] # 0)
             => LET w == In(c).Witness
                    db == stores[storeOf[c]]
                IN /\ db.nodes = {<<Keccak(b), b>> : b \in w.State}
                   /\ db.codes = {<<Keccak(b), b>> : b \in w.Codes}
                   /\ {e[3] : e \in db.headers} =
                          {w.Ancestors[k] : k \in 1..Len(w.Ancestors)}
        /\ (PassedChecks(c) /\ WitnessLacks(In(c)))
             => /\ res[c] = <<>>
                /\ pc[c] \in {"ret", "return", "done"} => err[c] # Nil

(* A call whose witness lacks only an inner node has run the engine and   *)
(* ended with its lookup failure.                                         *)
C3_Witness ==
    \E c \in active :
        /\ Done(c) /\ PassedChecks(c) /\ engineCalls[c] # <<>>
        /\ WitnessLacks(In(c))
        /\ In(c).Blocks[1].Body.valid
        /\ Has(err[c], "missing trie node")

(* C4: every run of the engine is on blocks[0], on the pre-state rooted   *)
(* at ancestors[0].stateRoot in the call's database, with Validate and    *)
(* StatelessSelfValidation set; a call that ends without error holds a    *)
(* result whose state root is the one blocks[0].header declares.          *)
C4_ValidatedParams ==
    \A c \in active :
        /\ \A k \in 1..Len(engineCalls[c]) :
              LET p == engineCalls[c][k] IN
              /\ p.Block = In(c).Blocks[1]
              /\ p.State.root = In(c).Witness.Ancestors[1].root
              /\ p.State.store = storeOf[c]
              /\ p.Validate = TRUE
              /\ p.VMConfig.StatelessSelfValidation = TRUE
        /\ (Done(c) /\ err[c] = Nil)
              => /\ Len(res[c]) = 1
                 /\ res[c][1].stateRoot = In(c).Blocks[1].Header.root

(* The engine computed another root than the block declares, and the call *)
(* ended with that error.                                                 *)
C4_Witness ==
    \E c \in active :
        /\ Done(c) /\ engineCalls[c] # <<>>
        /\ Has(err[c], "invalid merkle root")
        /\ PostRoot(In(c).Witness.Ancestors[1].root, In(c).Blocks[1].Body)
              # In(c).Blocks[1].Header.root

(* C5: a finished call holds an error and no result, or no error and the  *)
(* result the base executor returned.                                     *)
C5_ResultXorError ==
    \A c \in active :
        Done(c) =>
            /\ err[c] # Nil => res[c] = <<>>
            /\ err[c] = Nil =>
                  /\ Len(res[c]) = 1
                  /\ \E k \in 1..Len(evmTrace[c]) :
                        /\ evmTrace[c][k].layer = "base"
                        /\ evmTrace[c][k].res = res[c]
                        /\ evmTrace[c][k].err = Nil

(* A call ended with an error of the engine. *)
C5_Witness ==
    \E c \in active :
        Done(c) /\ engineCalls[c] # <<>> /\ Has(err[c], "failed to execute block")

StageOrder ==
    <<"Prepare context...", "Prepare pre-state...",
      "Prepare execution parameters...", "Execute EVM...">>

IsStageMsg(m) == \E k \in 1..Len(StageOrder) : StageOrder[k] = m.msg

StagesRun(c) ==
    LET picked == SelectSeq(log[c], IsStageMsg)
    IN [k \in 1..Len(picked) |-> picked[k].msg]

(* C8: the stages a call has run are a prefix of prepareContext,          *)
(* preparePreState, prepareExecParams, execEVM; no stage is pending once  *)
(* the call holds an error; the engine has run at most once, and only     *)
(* after all four stages were entered without error.                      *)
C8_StageOrder ==
    \A c \in active :
        /\ IsPrefix(StagesRun(c), StageOrder)
        /\ pc[c] \in {"preparePreState", "prepareExecParams", "execEVM", "call"}
              => err[c] = Nil
        /\ Len(engineCalls[c]) <= 1
        /\ engineCalls[c] # <<>> =>
              /\ StagesRun(c) = StageOrder
              /\ storeOf[c] # 0 /\ params[c] # <<>>
        /\ (Done(c) /\ err[c] # Nil /\ engineCalls[c] = <<>>) =>
              /\ Len(StagesRun(c)) < Len(StageOrder)
              /\ evmTrace[c] = <<>>

(* A call failed in prepareExecParams and is over without the engine. *)
C8_Witness ==
    \E c \in active :
        /\ Done(c) /\ err[c] # Nil
        /\ Len(StagesRun(c)) = 3 /\ engineCalls[c] = <<>>

ChainOrder ==
    << <<"tags", "call">>, <<"log", "call">>, <<"base", "return">>,
       <<"log", "return">>, <<"tags", "return">> >>

(* C9: the layers of the executor chain act in the order tags, log, base  *)
(* and return in the reverse order; whatever ExecutorWithLog logs carries *)
(* the component that ExecutorWithTags put on the ctx; its record of the  *)
(* outcome agrees with the base executor's error; every layer returns the *)
(* result and the error the base executor returned.                       *)
C9_DecoratorOrder ==
    \A c \in active :
        /\ IsPrefix([k \in 1..Len(evmTrace[c]) |->
                        <<evmTrace[c][k].layer, evmTrace[c][k].phase>>], ChainOrder)
        /\ \A k \in 1..Len(log[c]) :
              log[c][k].msg \in {"Start block execution...", "Block execution failed",
                                 "Block execution succeeded"}
                 => log[c][k].tags.component = "evm"
        /\ \A k \in 1..Len(evmTrace[c]) :
              evmTrace[c][k].phase = "return" =>
                 /\ evmTrace[c][k].res = evmTrace[c][3].res
                 /\ evmTrace[c][k].err = evmTrace[c][3].err
        /\ Len(evmTrace[c]) >= 4 =>
              \E k \in 1..Len(log[c]) :
                 log[c][k].msg = IF evmTrace[c][3].err # Nil
                                 THEN "Block execution failed"
                                 ELSE "Block execution succeeded"
        /\ pc[c] \in {"return", "done"} /\ engineCalls[c] # <<>> =>
              /\ Len(evmTrace[c]) = Len(ChainOrder)
              /\ res[c] = evmTrace[c][3].res
              /\ (err[c] = Nil) = (evmTrace[c][3].err = Nil)

(* The whole chain has returned from a failed run of the base executor. *)
C9_Witness ==
    \E c \in active :
        /\ pc[c] = "return" /\ Len(evmTrace[c]) = 5
        /\ evmTrace[c][3].err # Nil

Outcomes == {"Provable execution failed", "Provable execution succeeded"}

OutcomesLogged(c) == {k \in 1..Len(log[c]) : log[c][k].msg \in Outcomes}

(* C10 as stated: every finished call has logged exactly one outcome, the *)
(* one that agrees with the error it returns.                             *)
C10_EveryReturnLogged ==
    \A c \in active :
        Done(c) =>
            /\ Cardinality(OutcomesLogged(c)) = 1
            /\ log[c][Len(log[c])].msg =
                  (IF err[c] # Nil THEN "Provable execution failed"
                                   ELSE "Provable execution succeeded")

(* C10 amended: a finished call on a non-empty block list has logged      *)
(* exactly one outcome, as its last message, agreeing with the error it   *)
(* returns; a finished call on an empty block list has logged nothing; no *)
(* unfinished call has logged an outcome.                                 *)
C10_OutcomeLogged ==
    \A c \in active :
        /\ (Done(c) /\ Len(In(c).Blocks) > 0) =>
              /\ OutcomesLogged(c) = {Len(log[c])}
              /\ log[c][Len(log[c])].msg =
                    (IF err[c] # Nil THEN "Provable execution failed"
                                     ELSE "Provable execution succeeded")
        /\ (Done(c) /\ Len(In(c).Blocks) = 0) => log[c] = <<>>
        /\ ~Done(c) => OutcomesLogged(c) = {}

(* A call on an input without ancestors finished, its failure logged. *)
C10_Witness ==
    \E c \in active :
        /\ Done(c) /\ Len(In(c).Blocks) > 0 /\ Len(In(c).Witness.Ancestors) = 0
        /\ In(c).ChainConfigOk
        /\ log[c][Len(log[c])].msg = "Provable execution failed"

(* Execute run alone, from the empty-blocks check to the value returned:  *)
(* the outcome of a call when the calls are made one after the other.     *)
RunAlone(in) ==
    IF NoBlocks(in) THEN [res |-> <<>>, err |-> Errorf("no blocks provided")]
    ELSE LET made == NewChain(in.ChainConfigOk, 0)
             db == LoadWitness(EmptyStore, in.Witness)
         IN IF made.err # Nil
            THEN [res |-> <<>>,
                  err |-> Wrap("failed to prepare execution context",
                               Wrap("failed to create chain", made.err))]
            ELSE IF NoAncestors(in)
            THEN [res |-> <<>>,
                  err |-> <<"failed to prepare execution exec params",
                            "no ancestors provided">>]
            ELSE IF LinkageError(in.Witness.Ancestors[1], in.Blocks[1])
            THEN [res |-> <<>>,
                  err |-> <<"failed to prepare execution exec params",
                            "first ancestor must be the parent of the first block">>]
            ELSE LET st == StateNew(in.Witness.Ancestors[1].root, 0, db) IN
                 IF st.err # Nil
                 THEN [res |-> <<>>,
                       err |-> Wrap("failed to prepare execution exec params",
                                    Wrap("failed to create pre-state from parent root",
                                         st.err))]
                 ELSE LET out == BaseExecutor(db, ExecParams(in.Blocks[1], made.hc[1],
                                                             st.state[1]))
                      IN execEVMResult(out.res, out.err)

(* C6: concurrent calls hold different databases; the database of a call  *)
(* never holds anything but what its own witness provides, and it is the  *)
(* one its pre-state view and its chain read; a finished call holds the   *)
(* result and the error it has when run alone.                            *)
C6_Isolation ==
    \A c \in active :
        /\ \A d \in active \ {c} :
              (storeOf[c] # 0 /\ storeOf[d] # 0) => storeOf[c] # storeOf[d]
        /\ (Started(c) /\ storeOf[c] # 0) =>
              LET w == In(c).Witness
                  db == stores[storeOf[c]]
              IN /\ db.nodes \subseteq {<<Keccak(b), b>> : b \in w.State}
                 /\ db.codes \subseteq {<<Keccak(b), b>> : b \in w.Codes}
                 /\ {e[3] : e \in db.headers} \subseteq
                        {w.Ancestors[k] : k \in 1..Len(w.Ancestors)}
        /\ params[c] # <<>> =>
              /\ params[c][1].State.store = storeOf[c]
              /\ params[c][1].Chain.store = storeOf[c]
        /\ Done(c) => [res |-> res[c], err |-> err[c]] = RunAlone(In(c))

(* One call's engine has failed on a node its witness lacks while another *)
(* call, whose database holds that node, is in flight.                    *)
C6_Witness ==
    \E c \in active : \E d \in active \ {c} :
        /\ pc[c] = "ret" /\ Has(err[c], "missing trie node")
        /\ pc[d] = "call"
        /\ In(c).Witness.State # In(d).Witness.State
        /\ In(c).Witness.State \subseteq In(d).Witness.State
        /\ stores[storeOf[d]].nodes = {<<Keccak(b), b>> : b \in In(d).Witness.State}

====
